---- MODULE Spec2Model ----
(***************************************************************************)
(* ck::bio -- sequential binary readers/writers over a memory buffer and   *)
(* over a std stream (src/bio.hpp).                                        *)
(*                                                                         *)
(* One run exercises one family of objects, selected by `backend`:         *)
(*   "RawReader"    a basic_reader<Buffer> over a raw (pointer, size)      *)
(*                  region of the caller, or over a null pointer / handle  *)
(*   "Buffer"       a basic_writer<Buffer> over the vector `buf` and a     *)
(*                  basic_reader<Buffer> over a handle to that vector      *)
(*   "StreamReader" a basic_reader<Stream> over the input stream `si`      *)
(*   "StreamWriter" a basic_writer<Stream> over the output stream `so`     *)
(* The families share no state, so their interleavings add nothing.        *)
(* `last` is the call log: the last call, its arguments, the cursor and    *)
(* size before it, its return value and the bytes it delivered; `origin`   *)
(* is the absolute position a stream had when its reader/writer was built, *)
(* `sr_inrange` says the stream reader's stream has so far stayed good and  *)
(* inside [origin, end].                                                   *)
(***************************************************************************)
EXTENDS Integers, Sequences, FiniteSets, TLC

VARIABLES backend,
          buf, w_cur,
          r_p, r_is_buffer, r_size, region, r_cur,
          written, w_fresh,
          si, sr_beg, sr_remain, crashed, sr_inrange,
          so, sw_beg, origin,
          last

vars == <<backend, buf, w_cur, r_p, r_is_buffer, r_size, region, r_cur,
          written, w_fresh, si, sr_beg, sr_remain, crashed, sr_inrange,
          so, sw_beg, origin, last>>

bufVars == <<buf, w_cur, r_p, r_is_buffer, r_size, region, r_cur, written, w_fresh>>
srVars  == <<si, sr_beg, sr_remain, crashed, sr_inrange>>
swVars  == <<so, sw_beg>>

----------------------------------------------------------------------------
(* Bounds *)

MaxLen  == 3        \* longest buffer / region / stream content
MaxByte == 1        \* byte values are 0..MaxByte

(* size_t arithmetic is modular.  The width is scaled from 2^64 to 2^30    *)
(* (TLC integers are 32 bit); every model value is far below either, so a  *)
(* subtraction wraps in the model exactly when it wraps in the program.    *)
SizeMod == 2^30

Byte    == 0..MaxByte
Min(a, b) == IF a < b THEN a ELSE b
Max(a, b) == IF a > b THEN a ELSE b

\* byte blocks handed to the calls: every length, every first byte,
\* neighbouring bytes differ (byte-wise writes build every other content)
Ramp(n, v)  == [i \in 1..n |-> (v + i - 1) % (MaxByte + 1)]
Bytes       == {Ramp(n, v) : n \in 0..MaxLen, v \in Byte}
\* stream contents and stream payloads: one per length
StreamBytes == {Ramp(n, 1) : n \in 0..MaxLen}

\* conversion of a signed value to size_t, and size_t subtraction
ToSize(x)  == x % SizeMod
USub(a, b) == (a - b) % SizeMod

\* a call-log entry: object, method, numeric argument, whether the pointer
\* argument was non-null, the bytes passed in, cursor / logical size / vector
\* before the call, whether the stream was good before it, the value
\* returned, the bytes delivered, and whether the backing store was reached
\* (prerem / hist: a stream reader's _remain and sr_inrange before the call)
Call(obj, op, arg, valid, src, pre, presize, prebuf, good, ret, out, touched) ==
    [obj |-> obj, op |-> op, arg |-> arg, valid |-> valid, src |-> src,
     pre |-> pre, presize |-> presize, prebuf |-> prebuf, good |-> good,
     ret |-> ret, out |-> out, touched |-> touched, prerem |-> 0,
     hist |-> TRUE]

NoCall == Call("none", "none", 0, TRUE, <<>>, 0, 0, <<>>, TRUE, 0, <<>>, FALSE)

\* argument values the calls are tried with
SeekArgs(size)      == (-1..(MaxLen + 1)) \cup {size + 1000}
OffsetArgs(p, size) == (-MaxLen..MaxLen) \cup {-(p + 1000), size * 2}
ReadSizes(k)        == (0..(MaxLen + 1)) \cup {k + 5}
NullSizes           == {0, 10}
CurCap              == MaxLen + 2      \* cursors and stream positions stay within

----------------------------------------------------------------------------
(* std::vector<uint8_t> and memcpy *)

\* buffer_t::resize(n): keeps the first min(size, n) bytes, zero-fills growth
Resize(v, n) == [i \in 1..n |-> IF i <= Len(v) THEN v[i] ELSE 0]

\* memcpy(v.data() + at, src, Len(src)) into a vector that holds the range
Memcpy(v, at, src) ==
    [i \in 1..Len(v) |-> IF at < i /\ i <= at + Len(src) THEN src[i - at] ELSE v[i]]

----------------------------------------------------------------------------
(* basic_writer<Buffer> *)

\* write(buf, size): buf is null, or holds the size bytes `src`
BufferWriter_write_noadvance(b, cur, isnull, src, size) ==
    IF isnull \/ size < 1 THEN [buf |-> b, cur |-> cur, ret |-> 0]
    ELSE LET sub == USub(cur + size, Len(b))
             b1  == IF sub > 0 THEN Resize(b, cur + size) ELSE b
         IN  [buf |-> Memcpy(b1, cur, src), cur |-> cur, ret |-> size]

BufferWriter_write_badresize(b, cur, isnull, src, size) ==
    IF isnull \/ size < 1 THEN [buf |-> b, cur |-> cur, ret |-> 0]
    ELSE LET sub == USub(cur + size, Len(b))
             b1  == IF sub > 0 THEN Resize(b, Len(b) + size) ELSE b
         IN  [buf |-> Memcpy(b1, cur, src), cur |-> cur + size, ret |-> size]

BufferWriter_write(b, cur, isnull, src, size) ==
    IF isnull \/ size < 1 THEN [buf |-> b, cur |-> cur, ret |-> 0]
    ELSE LET sub == USub(cur + size, Len(b))
             b1  == IF sub > 0 THEN Resize(b, cur + size) ELSE b
         IN  [buf |-> Memcpy(b1, cur, src), cur |-> cur + size, ret |-> size]

\* seek(pos): to the end, or to pos when 0 <= pos < size
BufferWriter_seek_noclamp(b, cur, pos) ==
    IF pos >= 0 THEN pos ELSE Len(b)

BufferWriter_seek(b, cur, pos) ==
    LET end == Len(b)
    IN  IF pos >= 0 /\ pos < end THEN pos ELSE end

\* offset(ofs): only the two clamping branches assign _cur
BufferWriter_offset(b, cur, ofs) ==
    LET end == Len(b)
        c   == cur + ofs
    IN  IF c < 0 THEN 0
        ELSE IF c > end THEN end
        ELSE cur

----------------------------------------------------------------------------
(* basic_reader<Buffer> *)

\* d.p.data / d.p.buf is a union: r_p says whether the stored pointer is null
Unbound(p) == p = "null"

\* end(): the vector's current size, or the stored size
ReaderEnd(isbuf, dsize, b) == IF isbuf THEN Len(b) ELSE dsize

\* ptr(): the vector's storage, or the raw region
ReaderPtr(isbuf, b, reg) == IF isbuf THEN b ELSE reg

\* basic_reader(const uint8_t* data, size_t size); isnull says data is null
BufferReader_ctor_raw(isnull, size) ==
    [p |-> IF isnull THEN "null" ELSE "data", is_buffer |-> FALSE,
     size |-> size, cur |-> 0]

\* basic_reader(const buffer_t* buf); isnull says buf is null
BufferReader_ctor_vec(isnull) ==
    [p |-> IF isnull THEN "null" ELSE "buf", is_buffer |-> TRUE,
     size |-> 0, cur |-> 0]

\* basic_reader(basic_reader&& o): what the constructor leaves in o
BufferReader_moved_from ==
    [p |-> "null", is_buffer |-> FALSE, size |-> 0, cur |-> 0]

\* read(buf, size); isnull says buf is null.  `junk` stands for whatever lies
\* behind the data when memcpy runs past its end (undefined behaviour: the
\* bytes delivered from there are not the data's).
BufferReader_read_noclamp(p, end, data, cur, isnull, size, junk) ==
    IF Unbound(p) \/ isnull \/ size < 1 THEN [cur |-> cur, ret |-> 0, out |-> <<>>]
    ELSE LET remain == USub(end, cur)
         IN  IF remain < 1 THEN [cur |-> cur, ret |-> 0, out |-> <<>>]
             ELSE [cur |-> cur + size, ret |-> size,
                   out |-> [i \in 1..size |->
                             IF cur + i <= Len(data) THEN data[cur + i] ELSE junk[i]]]

BufferReader_read(p, end, data, cur, isnull, size, junk) ==
    IF Unbound(p) \/ isnull \/ size < 1 THEN [cur |-> cur, ret |-> 0, out |-> <<>>]
    ELSE LET remain == USub(end, cur)
         IN  IF remain < 1 THEN [cur |-> cur, ret |-> 0, out |-> <<>>]
             ELSE LET n == IF remain < size THEN remain ELSE size
                  IN  [cur |-> cur + n, ret |-> n,
                       out |-> [i \in 1..n |->
                                 IF cur + i <= Len(data) THEN data[cur + i] ELSE junk[i]]]

\* seek(pos): returns 0 and leaves _cur alone when unbound
BufferReader_seek_nocheck(p, end, cur, pos) ==
    LET c == IF pos >= 0 /\ ToSize(pos) < end THEN ToSize(pos) ELSE end
    IN  [cur |-> c, ret |-> c]

BufferReader_seek(p, end, cur, pos) ==
    IF Unbound(p) THEN [cur |-> cur, ret |-> 0]
    ELSE LET c == IF pos >= 0 /\ ToSize(pos) < end THEN ToSize(pos) ELSE end
         IN  [cur |-> c, ret |-> c]

\* offset(ofs): only the two clamping branches assign _cur
BufferReader_offset_noclamp(p, end, cur, ofs) ==
    IF Unbound(p) THEN [cur |-> cur, ret |-> 0]
    ELSE LET c  == cur + ofs
             c1 == IF c < 0 THEN 0 ELSE cur
         IN  [cur |-> c1, ret |-> c1]

BufferReader_offset(p, end, cur, ofs) ==
    IF Unbound(p) THEN [cur |-> cur, ret |-> 0]
    ELSE LET c  == cur + ofs
             c1 == IF c < 0 THEN 0
                   ELSE IF ToSize(c) > end THEN end
                   ELSE cur
         IN  [cur |-> c1, ret |-> c1]

----------------------------------------------------------------------------
(* std::istream / std::ostream as bio.hpp uses them.                       *)
(* A stream is [data, pos, eof, fail, kind]: its content, its get/put      *)
(* position, its state bits, and whether it is a file stream (may be       *)
(* positioned past its end) or a string stream (may not).  The device      *)
(* itself never faults; the state bits change only as the library defines. *)

StreamKinds == {"file", "string"}

\* can the stream buffer be positioned at p
CanSeek(s, p) == p >= 0 /\ (s.kind = "file" \/ p <= Len(s.data))

\* tellg() / tellp(): -1 on a failed stream
Tell(s) == IF s.fail THEN -1 ELSE s.pos

\* seekg(p, beg), seekg(off, cur), seekg(0, end): clears eofbit, does nothing
\* on a failed stream, sets failbit when the buffer cannot seek there
SeekAbs(s, p) ==
    LET s1 == [s EXCEPT !.eof = FALSE]
    IN  IF s1.fail THEN s1
        ELSE IF CanSeek(s1, p) THEN [s1 EXCEPT !.pos = p]
        ELSE [s1 EXCEPT !.fail = TRUE]

SeekCur(s, off) == SeekAbs(s, s.pos + off)
SeekEnd(s)      == SeekAbs(s, Len(s.data))

\* istream::read(buf, n) on a good stream: delivers what is there, sets
\* eofbit|failbit when that is less than n.  Returns the stream and gcount.
IRead(s, n) ==
    LET avail == Max(0, Len(s.data) - s.pos)
        k     == Min(n, avail)
    IN  [s   |-> [s EXCEPT !.pos = s.pos + k,
                           !.eof = s.eof \/ k < n,
                           !.fail = s.fail \/ k < n],
         cnt |-> k,
         out |-> SubSeq(s.data, s.pos + 1, s.pos + k)]

\* ostream::write(buf, n) on a good stream: overwrites / appends at the put
\* position (a gap behind the end of a file reads as zeros)
OWrite(s, src) ==
    LET n  == Len(src)
        d1 == Resize(s.data, Max(Len(s.data), s.pos + n))
    IN  [s EXCEPT !.data = Memcpy(d1, s.pos, src), !.pos = s.pos + n]

----------------------------------------------------------------------------
(* basic_reader<Stream> *)

\* pos(): (size_t)_si.tellg() - _beg
StreamReader_pos(s, beg) == USub(ToSize(Tell(s)), beg)

\* constructor: remember the begin, measure the rest, go back
StreamReader_ctor_norestore(s) ==
    LET beg == ToSize(Tell(s))
        s1  == SeekEnd(s)
    IN  [s |-> s1, beg |-> beg, remain |-> StreamReader_pos(s1, beg)]

StreamReader_ctor(s) ==
    LET beg == ToSize(Tell(s))
        s1  == SeekEnd(s)
        rem == StreamReader_pos(s1, beg)
    IN  [s |-> SeekAbs(s1, beg), beg |-> beg, remain |-> rem]

\* read(buf, size); the caller's buf is not looked at before _si.read
StreamReader_read(s, beg, remain, size) ==
    IF s.eof \/ s.fail \/ remain < 1
    THEN [s |-> s, remain |-> remain, ret |-> 0, out |-> <<>>, touched |-> FALSE]
    ELSE LET n == IF remain < size THEN remain ELSE size
             r == IRead(s, n)
         IN  [s |-> r.s, remain |-> USub(remain, r.cnt), ret |-> r.cnt,
              out |-> r.out, touched |-> TRUE]

\* seek(pos)
StreamReader_seek_nobeg(s, beg, remain, pos) ==
    LET s1   == SeekEnd(s)
        size == Tell(s1)
    IN  IF pos >= 0
        THEN LET p == pos
             IN  IF p > size
                 THEN [s |-> s1, remain |-> 0, ret |-> StreamReader_pos(s1, beg)]
                 ELSE LET s2 == SeekAbs(s1, p)
                      IN  [s |-> s2, remain |-> ToSize(size - p),
                           ret |-> StreamReader_pos(s2, beg)]
        ELSE [s |-> s1, remain |-> remain, ret |-> StreamReader_pos(s1, beg)]

StreamReader_seek(s, beg, remain, pos) ==
    LET s1   == SeekEnd(s)
        size == Tell(s1)
    IN  IF pos >= 0
        THEN LET p == pos + beg
             IN  IF p > size
                 THEN [s |-> s1, remain |-> 0, ret |-> StreamReader_pos(s1, beg)]
                 ELSE LET s2 == SeekAbs(s1, p)
                      IN  [s |-> s2, remain |-> ToSize(size - p),
                           ret |-> StreamReader_pos(s2, beg)]
        ELSE [s |-> s1, remain |-> remain, ret |-> StreamReader_pos(s1, beg)]

\* offset(ofs): _remain is not touched
StreamReader_offset(s, beg, remain, ofs) ==
    LET s1 == SeekCur(s, ofs)
    IN  [s |-> s1, remain |-> remain, ret |-> StreamReader_pos(s1, beg)]

----------------------------------------------------------------------------
(* basic_writer<Stream> *)

StreamWriter_pos(s, beg) == USub(ToSize(Tell(s)), beg)

StreamWriter_ctor(s) == [s |-> s, beg |-> ToSize(Tell(s))]

\* write(buf, size); src = "null" is a null buf, otherwise the bytes
StreamWriter_write(s, isnull, src, size) ==
    IF isnull \/ s.fail \/ size < 1
    THEN [s |-> s, ret |-> 0, touched |-> FALSE]
    ELSE LET before == Tell(s)
             s1     == OWrite(s, src)
             pos    == Tell(s1)
         IN  [s |-> s1, ret |-> IF pos = -1 THEN 0 ELSE ToSize(pos - before),
              touched |-> TRUE]

\* seek(pos)
StreamWriter_seek_noclamp(s, beg, pos) ==
    LET s1   == SeekEnd(s)
        tail == Tell(s1)
        s2   == IF pos >= 0 THEN SeekAbs(s1, pos + beg) ELSE s1
    IN  [s |-> s2, ret |-> StreamWriter_pos(s2, beg)]

StreamWriter_seek(s, beg, pos) ==
    LET s1   == SeekEnd(s)
        tail == Tell(s1)
        s2   == IF pos >= 0 /\ pos + beg < tail THEN SeekAbs(s1, pos + beg) ELSE s1
    IN  [s |-> s2, ret |-> StreamWriter_pos(s2, beg)]

\* offset(ofs)
StreamWriter_offset(s, beg, ofs) ==
    LET s1 == SeekCur(s, ofs)
    IN  [s |-> s1, ret |-> StreamWriter_pos(s1, beg)]

----------------------------------------------------------------------------
(* Initial states *)

GoodStream(d, p, k) == [data |-> d, pos |-> p, eof |-> FALSE, fail |-> FALSE, kind |-> k]
IdleStream == GoodStream(<<>>, 0, "string")

InitRawReader ==
    /\ backend = "RawReader"
    /\ \E d \in Bytes, isnull \in BOOLEAN, vec \in BOOLEAN :
         LET c == IF vec THEN BufferReader_ctor_vec(TRUE)
                  ELSE BufferReader_ctor_raw(isnull, Len(d))
         IN  /\ vec => isnull /\ d = <<>>
             /\ r_p = c.p /\ r_is_buffer = c.is_buffer /\ r_size = c.size
             /\ r_cur = c.cur /\ region = (IF isnull THEN <<>> ELSE d)
    /\ buf = <<>> /\ w_cur = 0 /\ written = <<>> /\ w_fresh = FALSE
    /\ si = IdleStream /\ sr_beg = 0 /\ sr_remain = 0 /\ crashed = FALSE
    /\ sr_inrange = TRUE
    /\ so = IdleStream /\ sw_beg = 0 /\ origin = 0

InitBuffer ==
    /\ backend = "Buffer"
    /\ buf \in Bytes /\ w_cur = 0
    /\ LET c == BufferReader_ctor_vec(FALSE)
       IN  /\ r_p = c.p /\ r_is_buffer = c.is_buffer /\ r_size = c.size
           /\ r_cur = c.cur /\ region = <<>>
    /\ written = <<>> /\ w_fresh = (buf = <<>>)
    /\ si = IdleStream /\ sr_beg = 0 /\ sr_remain = 0 /\ crashed = FALSE
    /\ sr_inrange = TRUE
    /\ so = IdleStream /\ sw_beg = 0 /\ origin = 0

InitStreamReader ==
    /\ backend = "StreamReader"
    /\ \E d \in StreamBytes, k \in StreamKinds : \E B \in 0..Len(d) :
         LET c == StreamReader_ctor(GoodStream(d, B, k))
         IN  si = c.s /\ sr_beg = c.beg /\ sr_remain = c.remain /\ origin = B
    /\ crashed = FALSE /\ sr_inrange = TRUE
    /\ buf = <<>> /\ w_cur = 0
    /\ r_p = "null" /\ r_is_buffer = FALSE /\ r_size = 0 /\ region = <<>> /\ r_cur = 0
    /\ written = <<>> /\ w_fresh = FALSE
    /\ so = IdleStream /\ sw_beg = 0

InitStreamWriter ==
    /\ backend = "StreamWriter"
    /\ \E d \in StreamBytes, k \in StreamKinds : \E B \in 0..Len(d) :
         LET c == StreamWriter_ctor(GoodStream(d, B, k))
         IN  so = c.s /\ sw_beg = c.beg /\ origin = B
    /\ buf = <<>> /\ w_cur = 0
    /\ r_p = "null" /\ r_is_buffer = FALSE /\ r_size = 0 /\ region = <<>> /\ r_cur = 0
    /\ written = <<>> /\ w_fresh = FALSE
    /\ si = IdleStream /\ sr_beg = 0 /\ sr_remain = 0 /\ crashed = FALSE
    /\ sr_inrange = TRUE

\* a vector-form reader over a vector its owner keeps resizing
InitVecReader ==
    /\ backend = "VecReader"
    /\ buf \in Bytes /\ w_cur = 0
    /\ LET c == BufferReader_ctor_vec(FALSE)
       IN  /\ r_p = c.p /\ r_is_buffer = c.is_buffer /\ r_size = c.size
           /\ r_cur = c.cur /\ region = <<>>
    /\ written = <<>> /\ w_fresh = FALSE
    /\ si = IdleStream /\ sr_beg = 0 /\ sr_remain = 0 /\ crashed = FALSE
    /\ sr_inrange = TRUE
    /\ so = IdleStream /\ sw_beg = 0 /\ origin = 0

Init == /\ last = NoCall
        /\ (InitRawReader \/ InitBuffer \/ InitVecReader
              \/ InitStreamReader \/ InitStreamWriter)

----------------------------------------------------------------------------
(* Buffer family: actions *)

\* a new reader constructed over the writer's vector
ReaderCtorVec ==
    /\ backend = "Buffer"
    /\ LET c == BufferReader_ctor_vec(FALSE)
       IN  /\ r_p' = c.p /\ r_is_buffer' = c.is_buffer /\ r_size' = c.size
           /\ r_cur' = c.cur
    /\ last' = Call("BufferReader", "ctor", 0, TRUE, <<>>, 0, Len(buf), <<>>,
                    TRUE, 0, <<>>, FALSE)
    /\ UNCHANGED <<backend, buf, w_cur, region, written, w_fresh, srVars, swVars, origin>>

\* the reader is moved into another object; the model goes on with the
\* moved-from one
BufferReaderMove ==
    /\ backend \in {"RawReader", "Buffer"}
    /\ LET o == BufferReader_moved_from
       IN  /\ r_p' = o.p /\ r_is_buffer' = o.is_buffer /\ r_size' = o.size
           /\ r_cur' = o.cur
    /\ last' = Call("BufferReader", "move", 0, TRUE, <<>>, r_cur, 0, <<>>,
                    TRUE, 0, <<>>, FALSE)
    /\ UNCHANGED <<backend, buf, w_cur, region, written, w_fresh, srVars, swVars, origin>>

\* the owner of the vector a reader refers to resizes it (the reader holds
\* a pointer to the vector and asks it for its size on every call)
VectorResize ==
    /\ backend = "VecReader"
    /\ \E n \in 0..MaxLen :
         /\ n # Len(buf)
         /\ buf' = Resize(buf, n)
         /\ last' = Call("vector", "resize", n, TRUE, <<>>, r_cur, Len(buf), buf,
                         TRUE, 0, <<>>, FALSE)
    /\ UNCHANGED <<backend, w_cur, r_p, r_is_buffer, r_size, region, r_cur,
                   written, w_fresh, srVars, swVars, origin>>

\* the size end() reports (a null vector handle has none) and the bytes
\* ptr() points at (nothing when unbound)
REnd  == IF Unbound(r_p) /\ r_is_buffer THEN 0
         ELSE ReaderEnd(r_is_buffer, r_size, buf)
RData == IF Unbound(r_p) THEN <<>> ELSE ReaderPtr(r_is_buffer, buf, region)

BufferReaderRead ==
    /\ backend \in {"RawReader", "Buffer", "VecReader"}
    /\ \E dest \in {"null", "valid"} :
       \E size \in (IF dest = "null" THEN NullSizes ELSE ReadSizes(REnd)) :
       \E junk \in (IF dest = "valid" /\ ~Unbound(r_p) /\ r_cur > REnd
                       /\ r_cur + size <= CurCap
                    THEN {Ramp(size, v) : v \in Byte} ELSE {Ramp(size, 0)}) :
         LET r == BufferReader_read(r_p, REnd, RData, r_cur, dest = "null", size, junk)
         IN  /\ r.cur <= CurCap
             /\ r_cur' = r.cur
             /\ last' = Call("BufferReader", "read", size, dest = "valid", <<>>,
                             r_cur, REnd, <<>>, TRUE, r.ret, r.out,
                             dest = "valid" /\ r.ret > 0)
    /\ UNCHANGED <<backend, buf, w_cur, r_p, r_is_buffer, r_size, region,
                   written, w_fresh, srVars, swVars, origin>>

BufferReaderSeek ==
    /\ backend \in {"RawReader", "Buffer", "VecReader"}
    /\ \E pos \in SeekArgs(REnd) :
         LET r == BufferReader_seek(r_p, REnd, r_cur, pos)
         IN  /\ r_cur' = r.cur
             /\ last' = Call("BufferReader", "seek", pos, TRUE, <<>>,
                             r_cur, REnd, <<>>, TRUE, r.ret, <<>>, FALSE)
    /\ UNCHANGED <<backend, buf, w_cur, r_p, r_is_buffer, r_size, region,
                   written, w_fresh, srVars, swVars, origin>>

BufferReaderOffset ==
    /\ backend \in {"RawReader", "Buffer", "VecReader"}
    /\ \E ofs \in OffsetArgs(r_cur, REnd) :
         LET r == BufferReader_offset(r_p, REnd, r_cur, ofs)
         IN  /\ r_cur' = r.cur
             /\ last' = Call("BufferReader", "offset", ofs, TRUE, <<>>,
                             r_cur, REnd, <<>>, TRUE, r.ret, <<>>, FALSE)
    /\ UNCHANGED <<backend, buf, w_cur, r_p, r_is_buffer, r_size, region,
                   written, w_fresh, srVars, swVars, origin>>

BufferWriterWrite ==
    /\ backend = "Buffer"
    /\ \E isnull \in BOOLEAN :
       \E src \in (IF isnull THEN {<<>>} ELSE Bytes) :
       \E size \in (IF isnull THEN NullSizes ELSE {Len(src)}) :
         LET r == BufferWriter_write(buf, w_cur, isnull, src, size)
         IN  /\ Len(r.buf) <= MaxLen
             /\ buf' = r.buf /\ w_cur' = r.cur
             /\ written' = (IF w_fresh THEN written \o src ELSE written)
             /\ last' = Call("BufferWriter", "write", size, ~isnull, src,
                             w_cur, Len(buf), buf, TRUE, r.ret, <<>>, r.ret > 0)
    /\ UNCHANGED <<backend, r_p, r_is_buffer, r_size, region, r_cur, w_fresh,
                   srVars, swVars, origin>>

BufferWriterSeek ==
    /\ backend = "Buffer"
    /\ \E pos \in SeekArgs(Len(buf)) :
         LET c == BufferWriter_seek(buf, w_cur, pos)
         IN  /\ w_cur' = c
             /\ last' = Call("BufferWriter", "seek", pos, TRUE, <<>>,
                             w_cur, Len(buf), <<>>, TRUE, c, <<>>, FALSE)
    /\ w_fresh' = FALSE /\ written' = <<>>
    /\ UNCHANGED <<backend, buf, r_p, r_is_buffer, r_size, region, r_cur,
                   srVars, swVars, origin>>

BufferWriterOffset ==
    /\ backend = "Buffer"
    /\ \E ofs \in OffsetArgs(w_cur, Len(buf)) :
         LET c == BufferWriter_offset(buf, w_cur, ofs)
         IN  /\ w_cur' = c
             /\ last' = Call("BufferWriter", "offset", ofs, TRUE, <<>>,
                             w_cur, Len(buf), <<>>, TRUE, c, <<>>, FALSE)
    /\ w_fresh' = FALSE /\ written' = <<>>
    /\ UNCHANGED <<backend, buf, r_p, r_is_buffer, r_size, region, r_cur,
                   srVars, swVars, origin>>

\* reserve(capacity): _buf.reserve changes the capacity only
BufferWriterReserve ==
    /\ backend = "Buffer"
    /\ \E capacity \in {0, MaxLen + 1} :
         last' = Call("BufferWriter", "reserve", capacity, TRUE, <<>>,
                      w_cur, Len(buf), buf, TRUE, 0, <<>>, FALSE)
    /\ UNCHANGED <<backend, bufVars, srVars, swVars, origin>>

----------------------------------------------------------------------------
(* Stream reader: actions *)

SRSize == Len(si.data) - sr_beg          \* logical size: absolute end - begin
SRPos  == StreamReader_pos(si, sr_beg)
SRGood == ~si.fail /\ ~si.eof

\* the stream is good and positioned inside [origin, end]
InRange(s) == ~s.fail /\ ~s.eof /\ origin <= s.pos /\ s.pos <= Len(s.data)

\* the log entry of a stream reader call made in the current state
SRCall(op, arg, valid, ret, out, touched) ==
    [Call("StreamReader", op, arg, valid, <<>>, SRPos, SRSize, <<>>, SRGood,
          ret, out, touched) EXCEPT !.prerem = sr_remain, !.hist = sr_inrange]

\* read into a valid destination
StreamReaderRead ==
    /\ backend = "StreamReader" /\ ~crashed
    /\ \E size \in ReadSizes(SRSize) :
         LET r == StreamReader_read(si, sr_beg, sr_remain, size)
         IN  /\ si' = r.s /\ sr_remain' = r.remain
             /\ sr_inrange' = (sr_inrange /\ InRange(r.s))
             /\ last' = SRCall("read", size, TRUE, r.ret, r.out, r.touched)
    /\ UNCHANGED <<backend, bufVars, sr_beg, crashed, swVars, origin>>

\* read(nullptr, size).  The guard of read does not look at buf, so
\* _si.read stores through the null pointer whenever it has bytes to
\* deliver: undefined behaviour.  The outcomes modelled are a crash, a
\* faulted transfer (nothing delivered, stream failed) and a transfer whose
\* stores vanish (the stream is consumed as by a valid read).
StreamReaderReadNull ==
    /\ backend = "StreamReader" /\ ~crashed
    /\ \E size \in NullSizes, outcome \in {"crash", "fault", "consumed"} :
         LET r  == StreamReader_read(si, sr_beg, sr_remain, size)
             ub == r.touched /\ r.ret > 0
         IN  IF ~ub
             THEN /\ outcome = "consumed"
                  /\ si' = r.s /\ sr_remain' = r.remain /\ crashed' = FALSE
                  /\ sr_inrange' = (sr_inrange /\ InRange(r.s))
                  /\ last' = SRCall("read", size, FALSE, r.ret, <<>>, r.touched)
             ELSE CASE outcome = "crash" ->
                         /\ crashed' = TRUE /\ sr_inrange' = FALSE
                         /\ UNCHANGED <<si, sr_remain>>
                         /\ last' = SRCall("read", size, FALSE, 0, <<>>, TRUE)
                    [] outcome = "fault" ->
                         /\ crashed' = FALSE
                         /\ si' = [si EXCEPT !.fail = TRUE]
                         /\ sr_remain' = sr_remain /\ sr_inrange' = FALSE
                         /\ last' = SRCall("read", size, FALSE, 0, <<>>, TRUE)
                    [] outcome = "consumed" ->
                         /\ crashed' = FALSE
                         /\ si' = r.s /\ sr_remain' = r.remain
                         /\ sr_inrange' = (sr_inrange /\ InRange(r.s))
                         /\ last' = SRCall("read", size, FALSE, r.ret, <<>>, TRUE)
    /\ UNCHANGED <<backend, bufVars, sr_beg, swVars, origin>>

StreamReaderSeek ==
    /\ backend = "StreamReader" /\ ~crashed
    /\ \E pos \in SeekArgs(SRSize) :
         LET r == StreamReader_seek(si, sr_beg, sr_remain, pos)
         IN  /\ si' = r.s /\ sr_remain' = r.remain
             /\ sr_inrange' = (sr_inrange /\ InRange(r.s))
             /\ last' = SRCall("seek", pos, TRUE, r.ret, <<>>, TRUE)
    /\ UNCHANGED <<backend, bufVars, sr_beg, crashed, swVars, origin>>

StreamReaderOffset ==
    /\ backend = "StreamReader" /\ ~crashed
    /\ \E ofs \in OffsetArgs(IF SRGood THEN SRPos ELSE 0, SRSize) :
         LET r == StreamReader_offset(si, sr_beg, sr_remain, ofs)
         IN  /\ r.s.pos <= CurCap
             /\ si' = r.s /\ sr_remain' = r.remain
             /\ sr_inrange' = (sr_inrange /\ InRange(r.s))
             /\ last' = SRCall("offset", ofs, TRUE, r.ret, <<>>, TRUE)
    /\ UNCHANGED <<backend, bufVars, sr_beg, crashed, swVars, origin>>

----------------------------------------------------------------------------
(* Stream writer: actions *)

SWSize == Len(so.data) - sw_beg
SWPos  == StreamWriter_pos(so, sw_beg)

StreamWriterWrite ==
    /\ backend = "StreamWriter"
    /\ \E isnull \in BOOLEAN :
       \E src \in (IF isnull THEN {<<>>} ELSE StreamBytes) :
       \E size \in (IF isnull THEN NullSizes ELSE {Len(src)}) :
         LET r == StreamWriter_write(so, isnull, src, size)
         IN  /\ Len(r.s.data) <= MaxLen
             /\ so' = r.s
             /\ last' = Call("StreamWriter", "write", size, ~isnull, src,
                             SWPos, SWSize, so.data, ~so.fail, r.ret, <<>>, r.touched)
    /\ UNCHANGED <<backend, bufVars, srVars, sw_beg, origin>>

StreamWriterSeek ==
    /\ backend = "StreamWriter"
    /\ \E pos \in SeekArgs(SWSize) :
         LET r == StreamWriter_seek(so, sw_beg, pos)
         IN  /\ so' = r.s
             /\ last' = Call("StreamWriter", "seek", pos, TRUE, <<>>,
                             SWPos, SWSize, so.data, ~so.fail, r.ret, <<>>, TRUE)
    /\ UNCHANGED <<backend, bufVars, srVars, sw_beg, origin>>

StreamWriterOffset ==
    /\ backend = "StreamWriter"
    /\ \E ofs \in OffsetArgs(IF so.fail THEN 0 ELSE SWPos, SWSize) :
         LET r == StreamWriter_offset(so, sw_beg, ofs)
         IN  /\ r.s.pos <= CurCap
             /\ so' = r.s
             /\ last' = Call("StreamWriter", "offset", ofs, TRUE, <<>>,
                             SWPos, SWSize, <<>>, ~so.fail, r.ret, <<>>, TRUE)
    /\ UNCHANGED <<backend, bufVars, srVars, sw_beg, origin>>

----------------------------------------------------------------------------
Next ==
    \/ ReaderCtorVec \/ BufferReaderMove \/ VectorResize
    \/ BufferReaderRead \/ BufferReaderSeek \/ BufferReaderOffset
    \/ BufferWriterWrite \/ BufferWriterSeek \/ BufferWriterOffset
    \/ BufferWriterReserve
    \/ StreamReaderRead \/ StreamReaderReadNull
    \/ StreamReaderSeek \/ StreamReaderOffset
    \/ StreamWriterWrite \/ StreamWriterSeek \/ StreamWriterOffset

Spec == Init /\ [][Next]_vars

----------------------------------------------------------------------------
(* Properties *)

\* pos() of the object the last call was made on
CurPos == CASE last.obj = "BufferReader" -> r_cur
            [] last.obj = "BufferWriter" -> w_cur
            [] last.obj = "StreamReader" -> SRPos
            [] last.obj = "StreamWriter" -> SWPos
            [] OTHER -> 0

\* the last call was made on a bound buffer reader or on the buffer writer
OnBoundBuffer == \/ last.obj = "BufferReader" /\ ~Unbound(r_p)
                 \/ last.obj = "BufferWriter"

\* C1: bytes written by consecutive write calls to a writer over an empty
\* vector come back unchanged: a new reader over that vector asked for as
\* many bytes as were written returns that count and delivers those bytes.
C1_RoundTrip ==
    ( /\ backend = "Buffer" /\ w_fresh
      /\ last.obj = "BufferReader" /\ last.op = "read" /\ last.valid
      /\ ~Unbound(r_p) /\ last.pre = 0
      /\ last.arg = Len(written) )
    => /\ last.ret = Len(written)
       /\ last.out = written

C1_Witness ==
    /\ backend = "Buffer" /\ w_fresh
    /\ last.obj = "BufferReader" /\ last.op = "read" /\ last.valid
    /\ ~Unbound(r_p) /\ last.pre = 0
    /\ last.arg = Len(written) /\ Len(written) >= 2
    /\ written[1] # written[2]
    /\ last.out = written

\* C2: a buffer write of n > 0 bytes at cursor c into a vector of size s
\* leaves the size at max(s, c+n); when c+n <= s the size stays s and the
\* bytes outside [c, c+n) keep their values.
C2_WriteNeverShrinks ==
    ( last.obj = "BufferWriter" /\ last.op = "write" /\ last.valid /\ last.arg > 0 )
    => /\ Len(buf) = Max(last.presize, last.pre + last.arg)
       /\ last.pre + last.arg <= last.presize
            => \A i \in 1..last.presize :
                 (i <= last.pre \/ i > last.pre + last.arg) => buf[i] = last.prebuf[i]

\* C3: on a bound buffer reader or a buffer writer, offset(delta) with
\* 0 <= p+delta <= size moves the cursor to p+delta and returns it.
C3_OffsetMovesInRange ==
    ( /\ OnBoundBuffer /\ last.op = "offset"
      /\ 0 <= last.pre + last.arg /\ last.pre + last.arg <= last.presize )
    => /\ CurPos = last.pre + last.arg
       /\ last.ret = last.pre + last.arg

\* C4: on every bound backend whose stream (if any) was not failed,
\* seek(t) leaves pos() at size for t < 0 and at min(t, size) for t >= 0,
\* and returns that position.
C4_SeekClamps ==
    ( /\ last.op = "seek" /\ last.good
      /\ last.obj = "BufferReader" => ~Unbound(r_p) )
    => LET want == IF last.arg < 0 THEN last.presize
                   ELSE Min(last.arg, last.presize)
       IN  /\ CurPos = want
           /\ last.ret = want

C4_Witness ==
    /\ last.obj = "StreamReader" /\ last.op = "seek" /\ last.good
    /\ origin > 0 /\ last.presize >= 2 /\ last.pre < last.presize
    /\ last.arg = last.presize + 1000
    /\ CurPos = last.presize

\* C5: a buffer reader over k bytes with cursor c <= k, asked for n > 0
\* bytes into a valid destination, returns min(n, k-c), delivers exactly the
\* bytes [c, c+min(n, k-c)) and advances the cursor by that count (so a
\* read at the end returns 0 and leaves the cursor at k).
C5_ShortRead ==
    ( /\ last.obj = "BufferReader" /\ last.op = "read" /\ last.valid
      /\ ~Unbound(r_p) /\ last.arg > 0 /\ last.pre <= last.presize )
    => LET n == Min(last.arg, last.presize - last.pre)
       IN  /\ last.ret = n
           /\ last.out = SubSeq(RData, last.pre + 1, last.pre + n)
           /\ r_cur = last.pre + n

C5_Witness ==
    /\ last.obj = "BufferReader" /\ last.op = "read" /\ last.valid
    /\ ~Unbound(r_p) /\ last.pre = 0 /\ last.presize >= 2
    /\ last.arg = last.presize + 5
    /\ last.ret = last.presize /\ r_cur = last.presize

\* C6: a buffer write of m > 0 bytes at cursor c into a vector of size s
\* with c <= s < c+m leaves the vector with size exactly c+m, bytes [0, c)
\* unchanged, bytes [c, c+m) equal to the data, the cursor at c+m, and
\* returns m.
C6_AutoGrowth ==
    ( /\ last.obj = "BufferWriter" /\ last.op = "write" /\ last.valid
      /\ last.arg > 0 /\ last.pre <= last.presize
      /\ last.presize < last.pre + last.arg )
    => /\ Len(buf) = last.pre + last.arg
       /\ SubSeq(buf, 1, last.pre) = SubSeq(last.prebuf, 1, last.pre)
       /\ SubSeq(buf, last.pre + 1, last.pre + last.arg) = last.src
       /\ w_cur = last.pre + last.arg
       /\ last.ret = last.arg

C6_Witness ==
    /\ last.obj = "BufferWriter" /\ last.op = "write" /\ last.valid
    /\ 0 < last.pre /\ last.pre < last.presize
    /\ last.presize < last.pre + last.arg
    /\ Len(buf) = last.pre + last.arg

\* C7: on every backend a read with a null destination or a write with a
\* null source and a positive count returns 0, transfers nothing, does not
\* reach the backing buffer or stream, and leaves pos() (and the stream
\* reader's remain) unchanged.
C7_NullArgNoOp ==
    ( last.op \in {"read", "write"} /\ ~last.valid /\ last.arg > 0 )
    => /\ last.ret = 0
       /\ ~last.touched
       /\ ~crashed
       /\ CurPos = last.pre
       /\ last.obj = "StreamReader" => sr_remain = last.prerem

\* C8: on a bound buffer reader or a buffer writer, offset(delta) leaves
\* pos() at 0 when p+delta < 0 and at size when p+delta > size.
C8_OffsetClamps ==
    ( OnBoundBuffer /\ last.op = "offset" )
    => /\ last.pre + last.arg < 0 => CurPos = 0 /\ last.ret = 0
       /\ last.pre + last.arg > last.presize
            => CurPos = last.presize /\ last.ret = last.presize

C8_Witness ==
    /\ OnBoundBuffer /\ last.op = "offset"
    /\ last.pre < last.presize /\ last.arg = last.presize * 2
    /\ CurPos = last.presize

\* C9: a stream reader or writer built on a stream positioned at absolute
\* offset B reports pos() = 0 right after construction, with the stream
\* back at B; while the stream is good pos() is the absolute position minus
\* B (as a size_t), and seek(t) with 0 <= t <= size puts the stream at B+t.
C9_OriginIndependence ==
    ( backend \in {"StreamReader", "StreamWriter"} /\ ~crashed )
    => LET s == IF backend = "StreamReader" THEN si ELSE so
           p == IF backend = "StreamReader" THEN SRPos ELSE SWPos
       IN  /\ last = NoCall => p = 0 /\ s.pos = origin /\ ~s.fail
           /\ ~s.fail => p = ToSize(s.pos - origin)
           /\ ( /\ last.op = "seek" /\ last.good
                /\ 0 <= last.arg /\ last.arg <= last.presize )
                => s.pos = origin + last.arg /\ last.ret = last.arg

C9_Witness ==
    /\ backend = "StreamReader" /\ last.op = "seek" /\ last.good
    /\ origin > 0 /\ 0 < last.arg /\ last.arg < last.presize
    /\ si.pos = origin + last.arg /\ SRPos = last.arg

\* C10: after construction and after every read, seek and offset on a
\* stream reader whose stream is not failed (the cursor inside [0, size]),
\* the cached remain equals the logical size minus pos().
C10_RemainInSync ==
    ( /\ backend = "StreamReader" /\ ~crashed
      /\ last.valid /\ last.good /\ SRGood
      /\ 0 <= si.pos - origin /\ si.pos - origin <= SRSize )
    => sr_remain = SRSize - SRPos

\* C11 (as claimed): StreamWriter.seek(target) with begin+target beyond the
\* end of the stream leaves the write position where it was before the
\* call and does not extend the stream.
C11_SeekBeyondNoOp ==
    ( /\ last.obj = "StreamWriter" /\ last.op = "seek" /\ last.good
      /\ last.arg >= 0 /\ last.arg > last.presize )
    => /\ SWPos = last.pre
       /\ so.data = last.prebuf

\* C11 (amended): StreamWriter.seek(target) with begin+target beyond the
\* end of the stream leaves the write position at the end of the stream
\* (pos() = size, which it returns) and does not extend the stream.
C11_SeekBeyondToEnd ==
    ( /\ last.obj = "StreamWriter" /\ last.op = "seek" /\ last.good
      /\ last.arg >= 0 /\ last.arg > last.presize )
    => /\ SWPos = last.presize /\ last.ret = last.presize
       /\ so.pos = Len(so.data) /\ ~so.fail
       /\ so.data = last.prebuf

C11_Witness ==
    /\ last.obj = "StreamWriter" /\ last.op = "seek" /\ last.good
    /\ last.arg > last.presize /\ origin > 0
    /\ last.pre < last.presize
    /\ SWPos = last.presize /\ so.data = last.prebuf

\* C12: a buffer reader over a fixed raw region, and a buffer writer that
\* is the only one to change its vector, keep 0 <= pos() <= size of the
\* backing data after construction and after every call; reserve changes
\* neither the vector nor the cursor.
C12_CursorInvariant ==
    /\ backend = "RawReader" => 0 <= r_cur /\ r_cur <= REnd /\ REnd = r_size
    /\ backend = "Buffer" => 0 <= w_cur /\ w_cur <= Len(buf)
    /\ last.op = "reserve" => w_cur = last.pre /\ buf = last.prebuf

C12_Witness ==
    /\ backend = "Buffer" /\ last.op = "reserve" /\ last.arg > Len(buf)
    /\ 0 < w_cur /\ w_cur < Len(buf)
    /\ buf = last.prebuf

\* C13: on an unbound buffer reader (null data pointer, null vector handle
\* or moved-from) every read, seek and offset returns 0, delivers nothing,
\* reaches no memory and leaves pos() at 0.
C13_UnboundNoOp ==
    ( (backend \in {"RawReader", "Buffer"}) /\ Unbound(r_p) )
    => /\ r_cur = 0
       /\ ( last.obj = "BufferReader" /\ last.op \in {"read", "seek", "offset"} )
            => /\ last.ret = 0 /\ last.out = <<>> /\ ~last.touched
               /\ last.pre = 0

C13_Witness ==
    /\ backend = "RawReader" /\ Unbound(r_p) /\ ~r_is_buffer /\ r_size > 0
    /\ last.obj = "BufferReader" /\ last.op = "seek" /\ last.arg > 0
    /\ last.ret = 0 /\ r_cur = 0

\* C14: on a stream reader whose stream delivers every byte it holds, after
\* any sequence of read/seek/offset that kept the stream good and the
\* cursor inside [0, size], read(dest, n) with a valid dest returns
\* min(n, size - pos()), and a return below n leaves the cursor at the end.
C14_ShortReadIsEnd ==
    ( /\ last.obj = "StreamReader" /\ last.op = "read" /\ last.valid
      /\ last.hist /\ last.good )
    => /\ last.ret = Min(last.arg, last.presize - last.pre)
       /\ last.ret < last.arg => last.pre + last.ret = last.presize

\* C15: BufferReader.read with the cursor at or past the end of the data
\* (the vector may have become shorter than the cursor) returns 0, delivers
\* nothing and leaves the cursor where it was.
C15_ReadAtOrPastEnd ==
    ( /\ last.obj = "BufferReader" /\ last.op = "read"
      /\ last.pre >= last.presize )
    => /\ last.ret = 0 /\ last.out = <<>> /\ ~last.touched
       /\ r_cur = last.pre

\* C16: a BufferWriter and a vector-form BufferReader over the same vector:
\* after any interleaving of the writer's write/seek/offset and the reader's
\* read/seek/offset, both cursors are at most the vector's current size.
C16_SharedVectorCursors ==
    ( backend = "Buffer" /\ ~Unbound(r_p) )
    => /\ r_cur <= Len(buf)
       /\ w_cur <= Len(buf)

\* C17: offset(delta) on a StreamReader or StreamWriter with a good stream
\* and the cursor p inside [0, size] returns clamp(p + delta, 0, size),
\* leaves pos() at that value and does not fail the stream.
C17_StreamOffsetClamps ==
    ( /\ last.obj \in {"StreamReader", "StreamWriter"} /\ last.op = "offset"
      /\ last.good /\ 0 <= last.pre /\ last.pre <= last.presize )
    => LET c == Max(0, Min(last.pre + last.arg, last.presize))
       IN  /\ last.ret = c
           /\ CurPos = c
           /\ ~(IF last.obj = "StreamReader" THEN si.fail ELSE so.fail)

====
